---- MODULE Spec2Model ----
(***************************************************************************)
(* The three insight pipelines of the oceanist insight engine              *)
(* (run_fishing_analyzer.py, run_news_curator.py, run_oilgas_analyzer.py)  *)
(* as one state machine.  A behaviour is the life of one deployed script:  *)
(* its remote inputs (datasets, RSS feed, logs served by the web site),    *)
(* and a bounded number of runs of main().  main() is cut at its blocking  *)
(* network calls, the only places where another run can interleave.        *)
(*                                                                         *)
(* Python values are modelled as follows.                                  *)
(*   - a JSON object is a function from key strings to values;             *)
(*   - None / list / dict / other results of json() are tagged records     *)
(*     [kind, items];                                                      *)
(*   - coordinates are integers: tenths of a degree in the fishing data,   *)
(*     whole degrees in the oil and gas data; geometries are axis-aligned  *)
(*     rectangles <<min_x, min_y, max_x, max_y>> (a shape equal to its     *)
(*     bounding box) or <<>> for a missing geometry; distances are kept    *)
(*     squared;                                                            *)
(*   - list positions are 1-based where Python's are 0-based.              *)
(***************************************************************************)
EXTENDS Integers, Sequences, FiniteSets, TLC

\* ------------------------------------------------------------------ bounds
\* Number of runs of main() started in one behaviour.
MaxRuns == 2

\* ------------------------------------------------------- program constants
ANALYSIS_SAMPLE_SIZE == 500
\* k of idx.nearest(bounds, 5) in both proximity analyzers.
NEAREST_K == 5
\* fetch_news_articles keeps feed.get('entries', [])[:5].
FEED_LIMIT == 5
\* SIMILARITY_THRESHOLD = 0.9, as the fraction SIMILARITY_NUM / SIMILARITY_DEN.
SIMILARITY_NUM == 9
SIMILARITY_DEN == 10
\* Edge of a hotspot grid cell, 5 degrees, in tenths of a degree.
CELL_TENTHS == 50

\* ----------------------------------------------------------------- helpers
Range(s) == {s[i] : i \in 1..Len(s)}

Min2(a, b) == IF a <= b THEN a ELSE b

Max3(a, b, c) == IF a >= b /\ a >= c THEN a ELSE IF b >= c THEN b ELSE c

\* d[k] = v on a Python dict d.
SetKey(o, k, v) == [x \in DOMAIN o \cup {k} |-> IF x = k THEN v ELSE o[x]]

HasKey(o, k) == k \in DOMAIN o

\* Python values that are not a usable list of records.
NoneVal == [kind |-> "None", items |-> <<>>]

EmptyList == [kind |-> "list", items |-> <<>>]

\* bool(x) of a fetched dataset: None and {} are falsy.
Truthy(d) == d.kind = "dict"

\* ---------------------------------------------------------------- geometry
\* A valid bounding box has min_x <= max_x and min_y <= max_y.
ValidBox(b) == b[1] <= b[3] /\ b[2] <= b[4]

\* Squared distance from point p to the rectangle b (0 inside it): what
\* shapely's distance gives for a rectangle, and the R-tree's box distance.
BoxDist2(p, b) ==
    LET dx == Max3(b[1] - p[1], 0, p[1] - b[3])
        dy == Max3(b[2] - p[2], 0, p[2] - b[4])
    IN  dx * dx + dy * dy

\* Slot ids idx.nearest(point, k) yields over the index holding `ids`, the
\* slot id i carrying the box boxes[i]: every id with fewer than k ids
\* strictly nearer (ties at the k-th distance are all returned).
Nearest(boxes, ids, p, k) ==
    {i \in ids :
        Cardinality({j \in ids : BoxDist2(p, boxes[j]) < BoxDist2(p, boxes[i])}) < k}

\* list(idx.nearest(...)): nearest first, ties in an order the library picks.
NearestLists(boxes, ids, p, k) ==
    LET near == Nearest(boxes, ids, p, k)
        n == Cardinality(near)
    IN  {s \in [1..n -> near] :
            /\ \A i, j \in 1..n : i # j => s[i] # s[j]
            /\ \A i, j \in 1..n :
                  i < j => BoxDist2(p, boxes[s[i]]) <= BoxDist2(p, boxes[s[j]])}

\* ------------------------------------------------------------ JSON records
MapView == [center |-> <<0, 0>>, zoom |-> 5, maxZoom |-> 10]

FullRecord == [tag |-> "#tag", content |-> "text", map_view |-> MapView]

UidX == "X-2024-01-01"

UidY == "Y-2024-01-01"

\* The objects the narrative generator is taken to answer with: what the
\* prompt asks for, the same with a unique_id, and an incomplete object.
GeneratedObjects ==
    { FullRecord,
      SetKey(FullRecord, "unique_id", UidX),
      SetKey(FullRecord, "unique_id", UidY),
      [tag |-> "#tag", map_view |-> [center |-> <<0, 0>>]] }

\* What one call of the generator can come to:
\*   api_error   client.messages.create raises
\*   not_json    json.loads raises on the stripped text
\*   falsy_json  the text parses to {}, [], 0, "" or null... a falsy value
\*   other_json  the text parses to a truthy value that is no object
\*   object      the text parses to a non-empty object
GeneratorReplies ==
    {[kind |-> k, obj |-> FullRecord] :
        k \in {"api_error", "not_json", "falsy_json", "other_json"}}
    \cup {[kind |-> "object", obj |-> o] : o \in GeneratedObjects}

Days == {"2024-01-01", "2024-01-02"}

NetOutcomes == {"ok", "unreachable", "http_error"}

\* ------------------------------------------- fishing analyzer: the analyzers
NoStory == [story_type |-> "None"]

\* mpa_shapes, line 49: the geometries that exist and carry coordinates.
mpa_shapes_of(mpa_geometries) == SelectSeq(mpa_geometries, LAMBDA g : g # <<>>)

\* random.sample(fishing_events, sample_size), lines 56-57: the positions of
\* sample_size distinct events, in the order drawn.
Samples(fishing_events) ==
    LET sample_size == Min2(Len(fishing_events), ANALYSIS_SAMPLE_SIZE)
    IN  {s \in [1..sample_size -> 1..Len(fishing_events)] :
            \A i, j \in 1..sample_size : i # j => s[i] # s[j]}

\* Lines 59-71.  st = [min_distance, closest_event]; min_distance = -1 stands
\* for float('inf').  All candidates of one event share its coordinates, so
\* the inner loop comes to the least distance among them.  A shape without a
\* valid box has no distance (nan), which is never < min_distance.
RECURSIVE ScanSample(_, _, _, _, _)
ScanSample(fishing_events, sample, mpa_shapes, ids, st) ==
    IF sample = <<>> THEN st
    ELSE
        LET event == fishing_events[Head(sample)]
            coords == <<event.lon, event.lat>>
            nearest_mpa_indices == Nearest(mpa_shapes, ids, coords, NEAREST_K)
            ds == {BoxDist2(coords, mpa_shapes[i]) :
                      i \in {j \in nearest_mpa_indices : ValidBox(mpa_shapes[j])}}
            distance == CHOOSE d \in ds : \A e \in ds : d <= e
            nxt == IF ds # {} /\ (st.min_distance = -1 \/ distance < st.min_distance)
                   THEN [min_distance |-> distance,
                         closest_event |->
                             [story_type |-> "mpa_proximity",
                              distance2 |-> distance,
                              fishing_coords |-> coords,
                              distance_text |-> IF distance = 0
                                                THEN "less than 100 meters"
                                                ELSE "km"]]
                   ELSE st
        IN  ScanSample(fishing_events, Tail(sample), mpa_shapes, ids, nxt)

\* Mutant of analyze_mpa_proximity: only the first event drawn is analysed.
analyze_mpa_proximity_first_drawn(fishing_data, mpa_data, sample, rtree_rejects) ==
    LET mpa_shapes == mpa_shapes_of(mpa_data.items)
        ids == 1..Len(mpa_shapes)
        st == ScanSample(fishing_data.items, SubSeq(sample, 1, Min2(1, Len(sample))), mpa_shapes, ids,
                         [min_distance |-> -1, closest_event |-> NoStory])
    IN  [raised |-> FALSE, story |-> st.closest_event, idx |-> ids,
         shapes |-> mpa_shapes, index_built |-> "yes"]

\* analyze_mpa_proximity.  `sample` is the random sample; `rtree_rejects`
\* says what idx.insert does with a box whose minimum exceeds its maximum:
\* raise (TRUE) or store it (FALSE); the analyzer itself does not look.
\* Result: [raised, story, idx, shapes, index_built], index_built being "no"
\* when the analyzer returned before line 52, "failed" when idx.insert raised.
analyze_mpa_proximity(fishing_data, mpa_data, sample, rtree_rejects) ==
    LET mpa_geometries == mpa_data.items
        fishing_events == fishing_data.items
        mpa_shapes == mpa_shapes_of(mpa_geometries)
        ids == 1..Len(mpa_shapes)
        st == ScanSample(fishing_events, sample, mpa_shapes, ids,
                         [min_distance |-> -1, closest_event |-> NoStory])
    IN  IF mpa_geometries = <<>> \/ fishing_events = <<>>
        THEN [raised |-> FALSE, story |-> NoStory, idx |-> {},
              shapes |-> <<>>, index_built |-> "no"]
        ELSE IF rtree_rejects /\ \E i \in ids : ~ValidBox(mpa_shapes[i])
        THEN [raised |-> TRUE, story |-> NoStory, idx |-> {},
              shapes |-> mpa_shapes, index_built |-> "failed"]
        ELSE [raised |-> FALSE, story |-> st.closest_event, idx |-> ids,
              shapes |-> mpa_shapes, index_built |-> "yes"]

\* Mutant of Cell: the quotient rounded toward zero instead of down.
Cell_toward_zero(event) ==
    <<IF event.lon < 0 THEN -(((-event.lon) \div CELL_TENTHS) * CELL_TENTHS)
      ELSE (event.lon \div CELL_TENTHS) * CELL_TENTHS,
      IF event.lat < 0 THEN -(((-event.lat) \div CELL_TENTHS) * CELL_TENTHS)
      ELSE (event.lat \div CELL_TENTHS) * CELL_TENTHS>>

\* The grid cell of an event, lines 91-93: int(lon // 5 * 5), in tenths.
Cell(event) ==
    <<(event.lon \div CELL_TENTHS) * CELL_TENTHS,
      (event.lat \div CELL_TENTHS) * CELL_TENTHS>>

\* analyze_global_hotspot.  grid is a dict filled in dataset order and
\* max(grid, key=grid.get) yields the first key, in that order, with the
\* greatest count.
analyze_global_hotspot(fishing_data) ==
    LET fishing_events == fishing_data.items
        n == Len(fishing_events)
        grid(cell) == Cardinality({i \in 1..n : Cell(fishing_events[i]) = cell})
        best == CHOOSE i \in 1..n :
                   /\ \A j \in 1..n :
                         grid(Cell(fishing_events[j])) <= grid(Cell(fishing_events[i]))
                   /\ \A j \in 1..(i - 1) :
                         grid(Cell(fishing_events[j])) < grid(Cell(fishing_events[i]))
        hotspot_cell == Cell(fishing_events[best])
    IN  IF fishing_events = <<>> THEN NoStory
        ELSE [story_type |-> "global_hotspot",
              center_coords |-> <<hotspot_cell[1] + CELL_TENTHS \div 2,
                                  hotspot_cell[2] + CELL_TENTHS \div 2>>,
              event_count |-> grid(hotspot_cell)]

\* Mutant of analyze_eez_focus: the value first counted wins whatever its
\* count, and the coordinates are those of the last record carrying it.
analyze_eez_focus_first_value(fishing_data) ==
    LET fishing_events == fishing_data.items
        with_eez == {i \in 1..Len(fishing_events) : fishing_events[i].eez # <<>>}
        best == CHOOSE i \in with_eez : \A j \in with_eez : i <= j
        most_common_eez == fishing_events[best].eez[1]
        same == {i \in with_eez : fishing_events[i].eez[1] = most_common_eez}
        last == CHOOSE i \in same : \A j \in same : j <= i
    IN  IF with_eez = {} THEN NoStory
        ELSE [story_type |-> "eez_focus",
              eez_name |-> most_common_eez,
              event_count |-> Cardinality(same),
              center_coords |-> <<fishing_events[last].lon, fishing_events[last].lat>>]

\* analyze_eez_focus.  Counter counts event['regions']['eez'][0] over the
\* events with a non-empty eez list; most_common(1) yields the first value,
\* in the order first counted, with the greatest count.
analyze_eez_focus(fishing_data) ==
    LET fishing_events == fishing_data.items
        n == Len(fishing_events)
        with_eez == {i \in 1..n : fishing_events[i].eez # <<>>}
        eez_counts(v) == Cardinality({i \in with_eez : fishing_events[i].eez[1] = v})
        best == CHOOSE i \in with_eez :
                   /\ \A j \in with_eez :
                         eez_counts(fishing_events[j].eez[1])
                             <= eez_counts(fishing_events[i].eez[1])
                   /\ \A j \in with_eez :
                         j < i => eez_counts(fishing_events[j].eez[1])
                                      < eez_counts(fishing_events[i].eez[1])
        most_common_eez == fishing_events[best].eez[1]
        first == CHOOSE i \in with_eez :
                    /\ fishing_events[i].eez[1] = most_common_eez
                    /\ \A j \in with_eez :
                          j < i => fishing_events[j].eez[1] # most_common_eez
    IN  IF fishing_events = <<>> \/ with_eez = {} THEN NoStory
        ELSE [story_type |-> "eez_focus",
              eez_name |-> most_common_eez,
              event_count |-> eez_counts(most_common_eez),
              center_coords |-> <<fishing_events[first].lon, fishing_events[first].lat>>]

\* The roulette's candidate list, lines 206-211 of main.
story_functions(fishing_data, mpa_data) ==
    (IF Truthy(mpa_data) /\ Truthy(fishing_data) THEN {"analyze_mpa_proximity"} ELSE {})
    \cup (IF Truthy(fishing_data)
          THEN {"analyze_global_hotspot", "analyze_eez_focus"} ELSE {})

\* --------------------------------------- oil and gas analyzer: the analyzer
\* coral_shapes, line 58: the geometries of the features that have one.
coral_shapes_of(coral_features) ==
    LET with_geometry == SelectSeq(coral_features, LAMBDA f : f.geometry # <<>>)
    IN  [i \in 1..Len(with_geometry) |-> with_geometry[i].geometry]

\* Lines 62-71: the slot ids inserted, each the position i of its shape in
\* coral_shapes, and the shapes appended to valid_shapes_for_index.
coral_index_ids(coral_shapes) == {i \in 1..Len(coral_shapes) : ValidBox(coral_shapes[i])}

valid_shapes_of(coral_shapes) == SelectSeq(coral_shapes, ValidBox)

\* Lines 82-91.  st = [raised, min_distance, closest_coral_feature]; -1 stands
\* for float('inf'), <<>> for None.  valid_shapes_for_index[coral_idx] raises
\* IndexError when coral_idx is past the end of the list.
RECURSIVE ScanNearest(_, _, _, _, _)
ScanNearest(nearest_coral_indices, platform_point, valid_shapes_for_index, coral_features, st) ==
    IF nearest_coral_indices = <<>> \/ st.raised THEN st
    ELSE
        LET coral_idx == Head(nearest_coral_indices)
            distance == BoxDist2(platform_point, valid_shapes_for_index[coral_idx])
            nxt == IF coral_idx > Len(valid_shapes_for_index)
                   THEN [st EXCEPT !.raised = TRUE]
                   ELSE IF st.min_distance = -1 \/ distance < st.min_distance
                   THEN [raised |-> FALSE, min_distance |-> distance,
                         closest_coral_feature |-> <<coral_features[coral_idx]>>]
                   ELSE st
        IN  ScanNearest(Tail(nearest_coral_indices), platform_point,
                        valid_shapes_for_index, coral_features, nxt)

\* Lines 82-91, what each slot id was resolved to: for every coral_idx the
\* loop reached, the shape valid_shapes_for_index[coral_idx] (<<>> with
\* in_range FALSE when the lookup raises IndexError, which ends the loop) and
\* the feature coral_features[coral_idx].
slot_lookups(nearest_coral_indices, valid_shapes_for_index, coral_features) ==
    LET n == Len(nearest_coral_indices)
        bad == {k \in 1..n : nearest_coral_indices[k] > Len(valid_shapes_for_index)}
        reached == {k \in 1..n : \A b \in bad : k <= b}
    IN  {[coral_idx |-> nearest_coral_indices[k],
          in_range |-> k \notin bad,
          shape |-> IF k \in bad THEN <<>>
                    ELSE valid_shapes_for_index[nearest_coral_indices[k]],
          feature |-> IF k \in bad THEN <<>>
                      ELSE <<coral_features[nearest_coral_indices[k]]>>] : k \in reached}

\* analyze_coral_proximity, after the index is built: `platform` is the
\* random.choice of line 75, `nearest_coral_indices` the list of line 80.
\* Result: [raised, story].
coral_proximity_story(platform, nearest_coral_indices, coral_shapes, coral_features) ==
    LET st == ScanNearest(nearest_coral_indices, platform.geometry,
                          valid_shapes_of(coral_shapes), coral_features,
                          [raised |-> FALSE, min_distance |-> -1,
                           closest_coral_feature |-> <<>>])
    IN  IF st.raised THEN [raised |-> TRUE, story |-> NoStory]
        ELSE IF st.closest_coral_feature = <<>>
        THEN [raised |-> FALSE, story |-> NoStory]
        ELSE [raised |-> FALSE,
              story |-> [story_type |-> "coral_proximity",
                         platform_name |-> platform.name,
                         platform_coords |-> platform.geometry,
                         coral_ecoregion |-> st.closest_coral_feature[1].ECOREGION,
                         distance2 |-> st.min_distance]]

\* ----------------------------------------------------- narrative generator
NoInsight == [kind |-> "None", obj |-> FullRecord]

\* generate_insight_with_ai / summarize_article_with_ai, the try block: None
\* when the call or json.loads raises, else the parsed value.
generate_insight_with_ai(reply) ==
    IF reply.kind \in {"api_error", "not_json"} THEN NoInsight
    ELSE [kind |-> reply.kind, obj |-> reply.obj]

\* `not insight_data` in main.
InsightFalsy(insight_data) == insight_data.kind \in {"None", "falsy_json"}

\* ------------------------------------------------------------ the log files
MissingDoc == [kind |-> "missing", items |-> <<>>]

\* requests.get(log_url) on a URL whose body is `doc`: the response, with
\* status_code 0 standing for a request that raised.
http_get(doc, net) ==
    IF net = "unreachable" THEN [status_code |-> 0, kind |-> "missing", items |-> <<>>]
    ELSE IF net = "http_error" THEN [status_code |-> 500, kind |-> "missing", items |-> <<>>]
    ELSE IF doc.kind = "missing" THEN [status_code |-> 404, kind |-> "missing", items |-> <<>>]
    ELSE [status_code |-> 200, kind |-> doc.kind, items |-> doc.items]

NoResponse == [status_code |-> 0, kind |-> "missing", items |-> <<>>]

\* Lines 232-240 of run_fishing_analyzer.py: all_insights after the try block.
\* A request that fails or is not answered 200, and a body that is not JSON,
\* leave the empty list; any JSON value is taken as it is.
fishing_load_log(existing_log_res) ==
    IF existing_log_res.status_code # 200 \/ existing_log_res.kind = "invalid"
    THEN EmptyList
    ELSE [kind |-> existing_log_res.kind, items |-> existing_log_res.items]

\* Lines 169-183 of run_news_curator.py: a list is kept, a single object is
\* wrapped in a list, anything else leaves the empty list.
news_load_log(existing_log_res) ==
    IF existing_log_res.status_code # 200 \/ existing_log_res.kind = "invalid"
    THEN EmptyList
    ELSE IF existing_log_res.kind \in {"list", "dict"}
    THEN [kind |-> "list", items |-> existing_log_res.items]
    ELSE EmptyList

\* Mutant of InsertAtHead: all_insights.append(insight_data).
InsertAtTail(all_insights, insight_data) ==
    [kind |-> "list", items |-> Append(all_insights.items, insight_data)]

\* all_insights.insert(0, insight_data)
InsertAtHead(all_insights, insight_data) ==
    [kind |-> "list", items |-> <<insight_data>> \o all_insights.items]

\* ------------------------------------------------------------- news curator
NoArticle == [title |-> <<>>, link |-> "none"]

\* fetch_news_articles, lines 40-47 (an unreachable feed raises, in the action).
fetch_news_articles(rss, net) ==
    IF net # "ok" THEN <<>> ELSE SubSeq(rss, 1, Min2(Len(rss), FEED_LIMIT))

\* previous_headlines, line 64, over the list loaded from insights_log.json.
previous_headlines(all_insights) ==
    {item.source_headline :
        item \in {x \in Range(all_insights.items) : HasKey(x, "source_headline")}}

\* The loop of find_unique_article, lines 67-78: the first article whose title
\* is not one of the previous headlines, or None.
first_unique(articles, headlines) ==
    LET fresh == {i \in 1..Len(articles) : articles[i].title \notin headlines}
    IN  IF fresh = {} THEN NoArticle
        ELSE articles[CHOOSE i \in fresh : \A j \in fresh : i <= j]

\* find_unique_article, lines 55-78, on the body `doc` of insights_log.json.
\* all_insights is whatever res.json() gave; the set comprehension of line 64
\* raises TypeError on a value that cannot be iterated, and on an object that
\* has the key source_headline (its keys are strings, and a string cannot be
\* indexed by 'source_headline').  Result: [raised, headlines, article].
find_unique_article(articles, existing_log_res) ==
    LET all_insights == fishing_load_log(existing_log_res)
        headlines == IF all_insights.kind = "list"
                     THEN previous_headlines(all_insights) ELSE {}
    IN  IF all_insights.kind = "other"
           \/ (all_insights.kind = "dict"
               /\ HasKey(all_insights.items[1], "source_headline"))
        THEN [raised |-> TRUE, headlines |-> {}, article |-> NoArticle]
        ELSE [raised |-> FALSE, headlines |-> headlines,
              article |-> first_unique(articles, headlines)]

\* fetch_geospatial_data, one try block: None when the request fails, is not
\* answered 2xx or the body is not JSON.
fetch_dataset(doc, net) ==
    IF net # "ok" \/ doc.kind \in {"missing", "invalid"} THEN NoneVal
    ELSE [kind |-> doc.kind, items |-> doc.items]

\* ------------------------------------------------------------ remote inputs
Event(lon, lat, eez) == [lon |-> lon, lat |-> lat, eez |-> eez]

Dataset(items) == [kind |-> "dict", items |-> items]

FishingEventDocs ==
    { Dataset(<<Event(0, 0, <<"X">>), Event(100, 100, <<"Y">>)>>),
      Dataset(<<Event(-16, 40, <<>>), Event(120, 30, <<"Y">>),
                Event(-20, 10, <<"X">>), Event(130, 40, <<"X", "Y">>)>>),
      Dataset(<<>>),
      [kind |-> "emptydict", items |-> <<>>],
      [kind |-> "invalid", items |-> <<>>] }

MpaDocs ==
    { Dataset(<<<<10, 10, 20, 20>>, <<90, 90, 110, 110>>>>),
      Dataset(<<<<>>, <<10, 10, 20, 20>>>>),
      Dataset(<<<<30, 30, 20, 20>>, <<10, 10, 20, 20>>>>),
      Dataset(<<<<>>>>),
      Dataset(<<>>),
      MissingDoc }

Platform(x, y, name) == [geometry |-> <<x, y>>, name |-> name]

Coral(box, ecoregion) == [geometry |-> box, ECOREGION |-> ecoregion]

PlatformDocs ==
    { Dataset(<<Platform(0, 0, "near")>>),
      Dataset(<<Platform(9, 9, "far")>>),
      Dataset(<<Platform(0, 0, "near"), Platform(9, 9, "far")>>),
      Dataset(<<>>),
      MissingDoc }

CoralDocs ==
    { Dataset(<<Coral(<<0, 0, 1, 1>>, "A")>>),
      Dataset(<<Coral(<<0, 0, 1, 1>>, "A"), Coral(<<2, 0, 3, 1>>, "B")>>),
      Dataset(<<Coral(<<>>, "N"), Coral(<<5, 5, 6, 6>>, "B")>>),
      Dataset(<<Coral(<<3, 3, 2, 2>>, "D"), Coral(<<0, 0, 1, 1>>, "A")>>),
      Dataset(<<>>),
      MissingDoc }

\* Article titles, as sequences of characters.
Title1 == <<1, 2, 3, 4, 5>>

Title1Near == <<1, 2, 3, 4, 5, 6>>

Title2 == <<7, 8>>

Article(title, link) == [title |-> title, link |-> link]

Feeds ==
    { <<>>,
      <<Article(Title1, "u1")>>,
      <<Article(Title1Near, "u1n"), Article(Title2, "u2")>>,
      <<Article(Title1, "u1"), Article(Title2, "u2")>>,
      <<Article(Title1, "u1"), Article(Title1, "u1b"), Article(Title1, "u1c"),
        Article(Title1, "u1d"), Article(Title1, "u1e"), Article(Title2, "u2")>> }

FishingEntry1 == SetKey(SetKey(FullRecord, "unique_id", UidX), "date", "2024-01-01")

FishingEntry2 == SetKey(FullRecord, "date", "2024-01-01")

NewsEntry(title, link) ==
    SetKey(SetKey(SetKey(FullRecord, "date", "2024-01-01"),
                  "source_headline", title), "source_url", link)

LogDoc(items) == [kind |-> "list", items |-> items]

\* Bodies the log URLs can answer with: nothing (404), text that is not JSON,
\* an array, a single object, another JSON value.
FishingLogDocs ==
    { MissingDoc,
      [kind |-> "invalid", items |-> <<>>],
      LogDoc(<<>>),
      LogDoc(<<FishingEntry1>>),
      LogDoc(<<FishingEntry2, FishingEntry1>>),
      [kind |-> "dict", items |-> <<FishingEntry1>>],
      [kind |-> "other", items |-> <<>>] }

NewsLogDocs ==
    { MissingDoc,
      [kind |-> "invalid", items |-> <<>>],
      LogDoc(<<NewsEntry(Title2, "u2")>>),
      LogDoc(<<NewsEntry(Title2, "u2"), NewsEntry(Title1, "u1")>>),
      [kind |-> "dict", items |-> <<NewsEntry(Title2, "u2")>>],
      [kind |-> "other", items |-> <<>>] }

InsightsLogDocs ==
    { MissingDoc,
      LogDoc(<<NewsEntry(Title1, "u1"), FishingEntry1>>),
      [kind |-> "dict", items |-> <<NewsEntry(Title1, "u1")>>],
      [kind |-> "dict", items |-> <<FishingEntry1>>] }

DefaultSources ==
    [fishing_events |-> Dataset(<<Event(0, 0, <<"X">>), Event(100, 100, <<"Y">>)>>),
     mpa |-> Dataset(<<<<10, 10, 20, 20>>, <<90, 90, 110, 110>>>>),
     platforms |-> Dataset(<<Platform(0, 0, "near")>>),
     corals |-> Dataset(<<Coral(<<0, 0, 1, 1>>, "A")>>),
     rss |-> <<Article(Title1, "u1"), Article(Title2, "u2")>>]

DefaultLogs ==
    [fishing |-> MissingDoc, news |-> MissingDoc, insights |-> MissingDoc,
     oilgas |-> MissingDoc]

\* The worlds a behaviour can start in: the deployed script, with either its
\* logs or its datasets ranging over the documents above.
Worlds ==
    {[script |-> "fishing", sources |-> DefaultSources,
      logs |-> [DefaultLogs EXCEPT !.fishing = d]] : d \in FishingLogDocs}
    \cup {[script |-> "news", sources |-> DefaultSources,
           logs |-> [DefaultLogs EXCEPT !.news = d]] : d \in NewsLogDocs}
    \cup {[script |-> "news", sources |-> [DefaultSources EXCEPT !.rss = f],
           logs |-> [DefaultLogs EXCEPT !.insights = m]] :
             m \in InsightsLogDocs, f \in Feeds}
    \cup {[script |-> "fishing",
           sources |-> [DefaultSources EXCEPT !.fishing_events = f, !.mpa = m],
           logs |-> DefaultLogs] : f \in FishingEventDocs, m \in MpaDocs}
    \cup {[script |-> "oilgas",
           sources |-> [DefaultSources EXCEPT !.platforms = p, !.corals = c],
           logs |-> DefaultLogs] : p \in PlatformDocs, c \in CoralDocs}

\* -------------------------------------------------------------------- state
Runs == {1, 2}

VARIABLES
    script,     \* the deployed script: "fishing", "news" or "oilgas"
    sources,    \* the bodies served at the dataset URLs and the RSS feed
    logs,       \* the bodies served at the log URLs (the persisted logs)
    pc,         \* pc[r]: where run r of main() stands
    outcome,    \* outcome[r]: how run r ended, "running" while it runs
    locals,     \* locals[r]: the local variables of run r
    nruns,      \* runs started so far
    persisted   \* history: every entry of every output file written by a run

vars == <<script, sources, logs, pc, outcome, locals, nruns, persisted>>

InitLocals ==
    [fishing_data |-> NoneVal, mpa_data |-> NoneVal,
     platform_data |-> NoneVal, coral_data |-> NoneVal,
     articles |-> <<>>, unique_article |-> NoArticle,
     story_functions |-> {}, chosen_story_function |-> "none",
     story_data |-> NoStory, insight_data |-> NoInsight,
     previous_headlines |-> {}, existing_log_res |-> NoResponse,
     all_insights |-> EmptyList,
     idx |-> {}, shapes |-> <<>>, index_built |-> "no", draws |-> 0,
     slot_lookups |-> {}]

Init ==
    /\ \E w \in Worlds : script = w.script /\ sources = w.sources /\ logs = w.logs
    /\ pc = [r \in Runs |-> IF r = 1 THEN "idle" ELSE "off"]
    /\ outcome = [r \in Runs |-> "none"]
    /\ locals = [r \in Runs |-> InitLocals]
    /\ nruns = 0
    /\ persisted = {}

\* Run r of main() begins: guard of every first step.
CanStart(r, s) == script = s /\ pc[r] = "idle" /\ nruns < MaxRuns

\* Run r returns (or dies on an uncaught exception) with outcome `how`,
\* its locals being `l`.
End(r, how, l) ==
    /\ pc' = [pc EXCEPT ![r] = "idle"]
    /\ outcome' = [outcome EXCEPT ![r] = how]
    /\ locals' = [locals EXCEPT ![r] = l]

\* Run r goes on to step `next` with locals `l`.
Goto(r, next, l) ==
    /\ pc' = [pc EXCEPT ![r] = next]
    /\ outcome' = [outcome EXCEPT ![r] = "running"]
    /\ locals' = [locals EXCEPT ![r] = l]

\* insight_data[k] = v on the generated object.
SetInsight(insight_data, k, v) ==
    [insight_data EXCEPT !.obj = SetKey(insight_data.obj, k, v)]

\* -------------------------------------------- run_fishing_analyzer.py: main
\* Lines 181-203: the schedule and API key checks (`go`), then
\* fetch_geospatial_data, which gives (None, None) when the fishing data
\* cannot be had and never asks for the MPA data then.
FishingFetch(r) ==
    /\ CanStart(r, "fishing")
    /\ nruns' = nruns + 1
    /\ \E go \in BOOLEAN, net_f \in NetOutcomes, net_m \in NetOutcomes :
          LET fishing_data == fetch_dataset(sources.fishing_events, net_f)
              mpa_data == IF fishing_data.kind = "None" THEN NoneVal
                          ELSE fetch_dataset(sources.mpa, net_m)
              l == [InitLocals EXCEPT !.fishing_data = fishing_data,
                                      !.mpa_data = mpa_data]
          IN  IF ~go THEN End(r, "skipped", InitLocals)
              ELSE IF ~Truthy(fishing_data) THEN End(r, "data_unavailable", l)
              ELSE Goto(r, "analyze", l)
    /\ UNCHANGED <<script, sources, logs, persisted>>

\* Lines 205-220: the roulette and the chosen analyzer.
FishingAnalyze(r) ==
    /\ script = "fishing" /\ pc[r] = "analyze"
    /\ LET l == locals[r]
       IN  \E chosen_story_function \in story_functions(l.fishing_data, l.mpa_data),
              sample \in Samples(l.fishing_data.items),
              rtree_rejects \in BOOLEAN :
              LET res == IF chosen_story_function = "analyze_mpa_proximity"
                         THEN analyze_mpa_proximity(l.fishing_data, l.mpa_data,
                                                    sample, rtree_rejects)
                         ELSE [raised |-> FALSE,
                               story |-> IF chosen_story_function = "analyze_global_hotspot"
                                         THEN analyze_global_hotspot(l.fishing_data)
                                         ELSE analyze_eez_focus(l.fishing_data),
                               idx |-> {}, shapes |-> <<>>, index_built |-> "no"]
                  l2 == [l EXCEPT !.story_functions =
                                      story_functions(l.fishing_data, l.mpa_data),
                                  !.chosen_story_function = chosen_story_function,
                                  !.story_data = res.story, !.idx = res.idx,
                                  !.shapes = res.shapes,
                                  !.index_built = res.index_built]
              IN  IF res.raised THEN End(r, "raised", l2)
                  ELSE IF res.story = NoStory THEN End(r, "no_candidate", l2)
                  ELSE Goto(r, "generate", l2)
    /\ UNCHANGED <<script, sources, logs, nruns, persisted>>

\* Mutant of FishingGenerate: main without the `if not insight_data: return`
\* of lines 223-225 and with a date assignment that never raises.
FishingGenerate_Unchecked(r) ==
    /\ script = "fishing" /\ pc[r] = "generate"
    /\ \E reply \in GeneratorReplies, day \in Days :
          Goto(r, "load",
               [locals[r] EXCEPT !.insight_data =
                   SetInsight(generate_insight_with_ai(reply), "date", day)])
    /\ UNCHANGED <<script, sources, logs, nruns, persisted>>

\* Lines 222-230: the narrative generator, the check of its result, and
\* insight_data['date'] = ..., which raises TypeError on a value that is no
\* object.
FishingGenerate(r) ==
    /\ script = "fishing" /\ pc[r] = "generate"
    /\ \E reply \in GeneratorReplies, day \in Days :
          LET insight_data == generate_insight_with_ai(reply)
              l == locals[r]
          IN  IF InsightFalsy(insight_data)
              THEN End(r, "narrative_failed", [l EXCEPT !.insight_data = insight_data])
              ELSE IF insight_data.kind # "object"
              THEN End(r, "raised", [l EXCEPT !.insight_data = insight_data])
              ELSE Goto(r, "load",
                        [l EXCEPT !.insight_data = SetInsight(insight_data, "date", day)])
    /\ UNCHANGED <<script, sources, logs, nruns, persisted>>

\* Lines 232-240: the GET of the existing log.
FishingLoadLog(r) ==
    /\ script = "fishing" /\ pc[r] = "load"
    /\ \E net \in NetOutcomes :
          LET existing_log_res == http_get(logs.fishing, net)
          IN  Goto(r, "persist",
                   [locals[r] EXCEPT !.existing_log_res = existing_log_res,
                                     !.all_insights = fishing_load_log(existing_log_res)])
    /\ UNCHANGED <<script, sources, logs, nruns, persisted>>

\* Mutant of FishingPersist: the entry is inserted into the log as it stands
\* at the time of the write, not into the list loaded earlier.
FishingPersist_OnCurrentLog(r) ==
    /\ script = "fishing" /\ pc[r] = "persist"
    /\ LET l == locals[r]
           now == fishing_load_log(http_get(logs.fishing, "ok"))
           out == InsertAtHead(now, l.insight_data.obj)
       IN  IF now.kind # "list"
           THEN End(r, "raised", l) /\ UNCHANGED <<logs, persisted>>
           ELSE /\ End(r, "saved", l)
                /\ logs' = [logs EXCEPT !.fishing = out]
                /\ persisted' = persisted \cup Range(out.items)
    /\ UNCHANGED <<script, sources, nruns>>

\* Lines 242-246: all_insights.insert(0, insight_data), which raises
\* AttributeError when all_insights is no list, and the write of the file.
FishingPersist(r) ==
    /\ script = "fishing" /\ pc[r] = "persist"
    /\ LET l == locals[r]
           out == InsertAtHead(l.all_insights, l.insight_data.obj)
       IN  IF l.all_insights.kind # "list"
           THEN End(r, "raised", l) /\ UNCHANGED <<logs, persisted>>
           ELSE /\ End(r, "saved", l)
                /\ logs' = [logs EXCEPT !.fishing = out]
                /\ persisted' = persisted \cup Range(out.items)
    /\ UNCHANGED <<script, sources, nruns>>

\* ----------------------------------------------- run_news_curator.py: main
\* Lines 126-144: the API key and keyword checks (`go`) and
\* fetch_news_articles, whose requests.get is not guarded.
NewsFetch(r) ==
    /\ CanStart(r, "news")
    /\ nruns' = nruns + 1
    /\ \E go \in BOOLEAN, net \in NetOutcomes :
          LET articles == fetch_news_articles(sources.rss, net)
              l == [InitLocals EXCEPT !.articles = articles]
          IN  IF ~go THEN End(r, "skipped", InitLocals)
              ELSE IF net = "unreachable" THEN End(r, "raised", InitLocals)
              ELSE IF articles = <<>> THEN End(r, "data_unavailable", l)
              ELSE Goto(r, "dedup", l)
    /\ UNCHANGED <<script, sources, logs, persisted>>

\* Lines 146-149: find_unique_article.
NewsFindUnique(r) ==
    /\ script = "news" /\ pc[r] = "dedup"
    /\ \E net \in NetOutcomes :
          LET l == locals[r]
              res == find_unique_article(l.articles, http_get(logs.insights, net))
              l2 == [l EXCEPT !.unique_article = res.article,
                              !.previous_headlines = res.headlines]
          IN  IF res.raised THEN End(r, "raised", l2)
              ELSE IF res.article = NoArticle THEN End(r, "duplicate", l2)
              ELSE Goto(r, "generate", l2)
    /\ UNCHANGED <<script, sources, logs, nruns, persisted>>

\* Lines 151-167: is_article_relevant, summarize_article_with_ai and the
\* three assignments to insight_data.
NewsSummarize(r) ==
    /\ script = "news" /\ pc[r] = "generate"
    /\ \E relevant \in BOOLEAN, reply \in GeneratorReplies, day \in Days :
          LET insight_data == generate_insight_with_ai(reply)
              l == locals[r]
          IN  IF ~relevant THEN End(r, "not_relevant", l)
              ELSE IF InsightFalsy(insight_data)
              THEN End(r, "narrative_failed", [l EXCEPT !.insight_data = insight_data])
              ELSE IF insight_data.kind # "object"
              THEN End(r, "raised", [l EXCEPT !.insight_data = insight_data])
              ELSE Goto(r, "load",
                        [l EXCEPT !.insight_data =
                            SetInsight(SetInsight(SetInsight(insight_data, "date", day),
                                                  "source_headline", l.unique_article.title),
                                       "source_url", l.unique_article.link)])
    /\ UNCHANGED <<script, sources, logs, nruns, persisted>>

\* Lines 169-183: the GET of the existing log.
NewsLoadLog(r) ==
    /\ script = "news" /\ pc[r] = "load"
    /\ \E net \in NetOutcomes :
          LET existing_log_res == http_get(logs.news, net)
          IN  Goto(r, "persist",
                   [locals[r] EXCEPT !.existing_log_res = existing_log_res,
                                     !.all_insights = news_load_log(existing_log_res)])
    /\ UNCHANGED <<script, sources, logs, nruns, persisted>>

\* Lines 185-189: the insert and the write of the file.
NewsPersist(r) ==
    /\ script = "news" /\ pc[r] = "persist"
    /\ LET out == InsertAtHead(locals[r].all_insights, locals[r].insight_data.obj)
       IN  /\ End(r, "saved", locals[r])
           /\ logs' = [logs EXCEPT !.news = out]
           /\ persisted' = persisted \cup Range(out.items)
    /\ UNCHANGED <<script, sources, nruns>>

\* --------------------------------------------- run_oilgas_analyzer.py: main
\* Lines 153-181.
OilgasFetch(r) ==
    /\ CanStart(r, "oilgas")
    /\ nruns' = nruns + 1
    /\ \E go \in BOOLEAN, net_p \in NetOutcomes, net_c \in NetOutcomes :
          LET platform_data == fetch_dataset(sources.platforms, net_p)
              coral_data == IF platform_data.kind = "None" THEN NoneVal
                            ELSE fetch_dataset(sources.corals, net_c)
              l == [InitLocals EXCEPT !.platform_data = platform_data,
                                      !.coral_data = coral_data]
          IN  IF ~go THEN End(r, "skipped", InitLocals)
              ELSE IF ~Truthy(platform_data) \/ ~Truthy(coral_data)
              THEN End(r, "data_unavailable", l)
              ELSE Goto(r, "analyze", l)
    /\ UNCHANGED <<script, sources, logs, persisted>>

\* Lines 183-187: analyze_coral_proximity, with its one random.choice of a
\* platform and the order in which idx.nearest lists equally near slots.
OilgasAnalyze(r) ==
    /\ script = "oilgas" /\ pc[r] = "analyze"
    /\ LET l == locals[r]
           platform_features == l.platform_data.items
           coral_features == l.coral_data.items
           coral_shapes == coral_shapes_of(coral_features)
           ids == coral_index_ids(coral_shapes)
       IN  IF platform_features = <<>> \/ coral_features = <<>>
           THEN End(r, "no_candidate", l)
           ELSE \E i \in 1..Len(platform_features) :
                \E nearest_coral_indices \in
                      NearestLists(coral_shapes, ids, platform_features[i].geometry,
                                   NEAREST_K) :
                   LET res == coral_proximity_story(platform_features[i],
                                                    nearest_coral_indices,
                                                    coral_shapes, coral_features)
                       l2 == [l EXCEPT !.story_data = res.story, !.idx = ids,
                                       !.shapes = coral_shapes,
                                       !.index_built = "yes", !.draws = 1,
                                       !.slot_lookups =
                                           slot_lookups(nearest_coral_indices,
                                                        valid_shapes_of(coral_shapes),
                                                        coral_features)]
                   IN  IF res.raised THEN End(r, "raised", l2)
                       ELSE IF res.story = NoStory THEN End(r, "no_candidate", l2)
                       ELSE Goto(r, "generate", l2)
    /\ UNCHANGED <<script, sources, logs, nruns, persisted>>

\* Lines 189-198: the narrative generator, the date, and the write of the
\* file, which holds the one new record.
OilgasGenerate(r) ==
    /\ script = "oilgas" /\ pc[r] = "generate"
    /\ \E reply \in GeneratorReplies, day \in Days :
          LET insight_data == generate_insight_with_ai(reply)
              l == locals[r]
              dated == SetInsight(insight_data, "date", day)
          IN  IF InsightFalsy(insight_data)
              THEN End(r, "narrative_failed", [l EXCEPT !.insight_data = insight_data])
                   /\ UNCHANGED <<logs, persisted>>
              ELSE IF insight_data.kind # "object"
              THEN End(r, "raised", [l EXCEPT !.insight_data = insight_data])
                   /\ UNCHANGED <<logs, persisted>>
              ELSE /\ End(r, "saved", [l EXCEPT !.insight_data = dated])
                   /\ logs' = [logs EXCEPT
                                 !.oilgas = [kind |-> "dict", items |-> <<dated.obj>>]]
                   /\ persisted' = persisted \cup {dated.obj}
    /\ UNCHANGED <<script, sources, nruns>>

\* ---------------------------------------------------------- specification
Next ==
    \E r \in Runs :
        \/ FishingFetch(r)
        \/ FishingAnalyze(r)
        \/ FishingGenerate(r)
        \/ FishingLoadLog(r)
        \/ FishingPersist(r)
        \/ NewsFetch(r)
        \/ NewsFindUnique(r)
        \/ NewsSummarize(r)
        \/ NewsLoadLog(r)
        \/ NewsPersist(r)
        \/ OilgasFetch(r)
        \/ OilgasAnalyze(r)
        \/ OilgasGenerate(r)

Spec == Init /\ [][Next]_vars

\* Two runs of the deployed script at once (two workflow runs started close
\* together): both slots can start, each step of either run being one of
\* the actions above.  The worlds are those in which the log varies, and
\* one for the oil and gas script.
ConcurrentWorlds ==
    {w \in Worlds : w.sources = DefaultSources /\ w.logs.insights = MissingDoc}

InitConcurrent ==
    /\ \E w \in ConcurrentWorlds :
          script = w.script /\ sources = w.sources /\ logs = w.logs
    /\ pc = [r \in Runs |-> "idle"]
    /\ outcome = [r \in Runs |-> "none"]
    /\ locals = [r \in Runs |-> InitLocals]
    /\ nruns = 0
    /\ persisted = {}

SpecConcurrent == InitConcurrent /\ [][Next]_vars

\* ------------------------------------------------------------------ claims
\* difflib.SequenceMatcher(None, a, b): the number of matching characters,
\* found by taking the longest common block (the earliest in a, then the
\* earliest in b, among the longest) and recursing on both sides of it.
RECURSIVE MatchCount(_, _)
MatchCount(a, b) ==
    LET blocks == {t \in (1..Len(a)) \X (1..Len(b)) \X (1..Min2(Len(a), Len(b))) :
                      /\ t[1] + t[3] - 1 <= Len(a)
                      /\ t[2] + t[3] - 1 <= Len(b)
                      /\ SubSeq(a, t[1], t[1] + t[3] - 1) = SubSeq(b, t[2], t[2] + t[3] - 1)}
        best == CHOOSE t \in blocks :
                   \A u \in blocks :
                      \/ u[3] < t[3]
                      \/ u[3] = t[3] /\ t[1] < u[1]
                      \/ u[3] = t[3] /\ t[1] = u[1] /\ t[2] <= u[2]
    IN  IF blocks = {} THEN 0
        ELSE best[3]
             + MatchCount(SubSeq(a, 1, best[1] - 1), SubSeq(b, 1, best[2] - 1))
             + MatchCount(SubSeq(a, best[1] + best[3], Len(a)),
                          SubSeq(b, best[2] + best[3], Len(b)))

\* SequenceMatcher(None, a, b).ratio() > SIMILARITY_THRESHOLD, the ratio being
\* 2 * matches / (len(a) + len(b)).
TooSimilar(a, b) ==
    2 * MatchCount(a, b) * SIMILARITY_DEN > SIMILARITY_NUM * (Len(a) + Len(b))

\* The candidate record carries the unique_id of an entry of the loaded log.
DuplicateKey(candidate, all_insights) ==
    /\ HasKey(candidate, "unique_id")
    /\ \E i \in 1..Len(all_insights.items) :
          /\ HasKey(all_insights.items[i], "unique_id")
          /\ all_insights.items[i].unique_id = candidate.unique_id

\* C1: in the fishing pipeline, a candidate whose unique_id is the unique_id
\* of an entry of the loaded log is rejected and the log is left unchanged; a
\* candidate with another unique_id is accepted and stands at index 0 of the
\* resulting log.
C1_ExactKeyDedup ==
    [][\A r \in Runs :
          (/\ script = "fishing"
           /\ pc[r] = "persist" /\ pc'[r] # "persist"
           /\ locals[r].all_insights.kind = "list"
           /\ HasKey(locals[r].insight_data.obj, "unique_id"))
          => IF DuplicateKey(locals[r].insight_data.obj, locals[r].all_insights)
             THEN outcome'[r] # "saved" /\ logs' = logs
             ELSE /\ outcome'[r] = "saved"
                  /\ logs'.fishing.items[1] = locals[r].insight_data.obj]_vars

\* The ways a run ends without having saved anything.
AbortOutcomes ==
    {"skipped", "data_unavailable", "no_candidate", "duplicate", "not_relevant",
     "narrative_failed", "raised"}

\* With locals l, the run holds a candidate that its pipeline's gate let
\* through: a story (fishing, oil and gas), or an article whose title is
\* none of the headlines find_unique_article compared it with (news).
CandidatePassed(l) ==
    IF script = "news"
    THEN l.unique_article # NoArticle
         /\ l.unique_article.title \notin l.previous_headlines
    ELSE l.story_data # NoStory

C3_NewestFirst ==
    [][\A r \in Runs :
          (/\ script \in {"fishing", "news"}
           /\ pc[r] = "persist" /\ outcome'[r] = "saved"
           /\ locals[r].existing_log_res.status_code = 200
           /\ locals[r].existing_log_res.kind = "list")
          => LET L == locals[r].existing_log_res.items
                 e == locals[r].insight_data.obj
                 out == logs'[script].items
             IN  /\ logs'[script].kind = "list"
                 /\ Len(out) = Len(L) + 1
                 /\ out[1] = e
                 /\ \A i \in 1..Len(L) : out[i + 1] = L[i]]_vars

\* C3 witness: a run has saved its entry over a loaded log of at least two
\* entries, which follow it in the persisted log.
C3_Witness ==
    \E r \in Runs :
        /\ script \in {"fishing", "news"}
        /\ outcome[r] = "saved" /\ pc[r] = "idle"
        /\ locals[r].existing_log_res.status_code = 200
        /\ locals[r].existing_log_res.kind = "list"
        /\ Len(locals[r].existing_log_res.items) >= 2
        /\ logs[script].items
              = <<locals[r].insight_data.obj>> \o locals[r].existing_log_res.items

\* C4: loading the existing log never aborts a run: when the log is missing,
\* unreachable, answered with another status than 200, not JSON, or JSON that
\* is no array, the loaded log is empty and the run persists a log holding
\* only the new entry, without raising.
C4_LoadNeverAborts ==
    [][\A r \in Runs :
          (/\ script \in {"fishing", "news"}
           /\ pc[r] = "persist" /\ pc'[r] # "persist"
           /\ \/ locals[r].existing_log_res.status_code # 200
              \/ locals[r].existing_log_res.kind # "list")
          => /\ locals[r].all_insights = EmptyList
             /\ outcome'[r] = "saved"
             /\ logs'[script] = LogDoc(<<locals[r].insight_data.obj>>)]_vars

\* C5: the log is append-only across runs: the output a run persists holds
\* every entry persisted by the earlier runs, so that no persisted entry is
\* ever dropped.
C5_AppendOnly ==
    \A e \in persisted : e \in Range(logs[script].items)

\* The source_headline values of a list of entries, with repetitions.
Headlines(items) ==
    [i \in 1..Len(SelectSeq(items, LAMBDA x : HasKey(x, "source_headline"))) |->
        SelectSeq(items, LAMBDA x : HasKey(x, "source_headline"))[i].source_headline]

\* C6: the news curator's gate rejects an article whose headline is already
\* in the persisted news log, so that the news log never holds two entries
\* with the same source_headline.
C6_NoRepeatedHeadline ==
    script = "news" =>
        /\ \A r \in Runs :
              pc[r] \in {"generate", "load", "persist"}
              => locals[r].unique_article.title \notin Range(Headlines(logs.news.items))
        /\ \A i, j \in 1..Len(Headlines(logs.news.items)) :
              i # j => Headlines(logs.news.items)[i] # Headlines(logs.news.items)[j]

\* C7: a candidate article whose title is more than 0.9 similar to the title
\* of a previously logged entry is rejected, identical or not.
C7_SimilarityDedup ==
    \A r \in Runs :
        (script = "news" /\ locals[r].unique_article # NoArticle)
        => \A h \in locals[r].previous_headlines :
              ~TooSimilar(locals[r].unique_article.title, h)

\* The keys the output record must carry.
WellFormed(o) ==
    /\ {"tag", "content", "map_view", "date"} \subseteq DOMAIN o
    /\ {"center", "zoom", "maxZoom"} \subseteq DOMAIN o.map_view
    /\ IF script = "news"
       THEN {"source_url", "source_headline"} \subseteq DOMAIN o
       ELSE "unique_id" \in DOMAIN o

\* C8: every record a run inserts into the persisted log carries tag,
\* content, map_view (center, zoom, maxZoom), date, and unique_id or
\* source_url and source_headline, whatever object the generator returned.
C8_RecordShape ==
    \A r \in Runs :
        outcome[r] = "saved" => WellFormed(locals[r].insight_data.obj)

\* C9: both spatial index builders leave out every geometry whose bounding
\* box has min_x > max_x or min_y > max_y: the built index holds as many
\* entries as there are geometries with a valid box.
C9_IndexExcludesDegenerate ==
    \A r \in Runs :
        locals[r].index_built # "no"
        => /\ locals[r].index_built = "yes"
           /\ Cardinality(locals[r].idx)
                 = Cardinality({i \in 1..Len(locals[r].shapes) :
                                   ValidBox(locals[r].shapes[i])})

\* distance_km = distance * 111.32 <= 200 for a squared distance d2 in
\* degrees: d2 * 111.32^2 <= 200^2, both sides divided by 0.04^2.
Within200Km(d2) == d2 * 2783 * 2783 <= 5000 * 5000

\* C10: oil and gas coral proximity with threshold 200 km and 20 attempts:
\* no story is returned whose distance exceeds 200 km, and when no platform
\* of the dataset lies within 200 km of an indexed geometry the analyzer
\* returns no result after exactly 20 single draws.
C10_BoundedRetry ==
    \A r \in Runs :
        (script = "oilgas" /\ locals[r].draws > 0)
        => LET l == locals[r]
               none_near ==
                   \A i \in 1..Len(l.platform_data.items) : \A j \in l.idx :
                       ~Within200Km(BoxDist2(l.platform_data.items[i].geometry,
                                             l.shapes[j]))
           IN  /\ l.story_data # NoStory => Within200Km(l.story_data.distance2)
               /\ none_near => l.story_data = NoStory /\ l.draws = 20

\* The squared distances of all pairs of a fishing event and an indexed
\* geometry that has a distance, with the event's coordinates.
AllPairs(fishing_events, shapes, idx) ==
    {[coords |-> <<fishing_events[e].lon, fishing_events[e].lat>>,
      d2 |-> BoxDist2(<<fishing_events[e].lon, fishing_events[e].lat>>, shapes[g])] :
        e \in 1..Len(fishing_events), g \in {i \in idx : ValidBox(shapes[i])}}

\* C11: analyze_mpa_proximity over a sample that covers all the events (at
\* most 500) and an index of at most 5 geometries reports the coordinates and
\* the distance of a pair attaining the least distance over all pairs of an
\* event and a geometry; events (0,0), (10,10) and boxes (1,1)-(2,2),
\* (9,9)-(11,11) give (10,10) with distance 0; and there is no result only
\* when there is no event or the index is empty.
C11_ExhaustiveMinimum ==
    \A r \in Runs :
        (/\ script = "fishing" /\ locals[r].index_built = "yes"
         /\ Len(locals[r].fishing_data.items) <= ANALYSIS_SAMPLE_SIZE
         /\ Cardinality(locals[r].idx) <= NEAREST_K)
        => LET l == locals[r]
               pairs == AllPairs(l.fishing_data.items, l.shapes, l.idx)
           IN  /\ l.story_data = NoStory
                     => l.fishing_data.items = <<>> \/ l.idx = {}
               /\ l.story_data # NoStory
                     => /\ l.story_data.story_type = "mpa_proximity"
                        /\ \E p \in pairs :
                              /\ p.coords = l.story_data.fishing_coords
                              /\ p.d2 = l.story_data.distance2
                              /\ \A q \in pairs : p.d2 <= q.d2
               /\ (/\ l.fishing_data.items = <<Event(0, 0, <<"X">>), Event(100, 100, <<"Y">>)>>
                   /\ l.shapes = <<<<10, 10, 20, 20>>, <<90, 90, 110, 110>>>>)
                     => /\ l.story_data # NoStory
                        /\ l.story_data.fishing_coords = <<100, 100>>
                        /\ l.story_data.distance2 = 0

\* C11 witness: the proximity analyzer ran on the events (0,0), (10,10) and
\* the two boxes, and reported (10,10) at distance 0.
C11_Witness ==
    \E r \in Runs :
        /\ script = "fishing" /\ locals[r].index_built = "yes"
        /\ Len(locals[r].fishing_data.items) = 2
        /\ Cardinality(locals[r].idx) = 2
        /\ locals[r].story_data # NoStory
        /\ locals[r].story_data.fishing_coords = <<100, 100>>
        /\ locals[r].story_data.distance2 = 0

\* A fetched dataset was loaded and holds at least one item.
Available(d) == d.kind = "dict" /\ d.items # <<>>

\* C12: in the fishing pipeline an analyzer is a candidate of the roulette,
\* and is invoked, only if every dataset it requires was loaded and is not
\* empty: the MPA proximity analyzer is never a candidate when the MPA data
\* failed to load or holds no geometries; and a run whose fishing dataset is
\* not empty is not aborted because the MPA dataset is missing or empty.
C12_CandidatesHaveData ==
    \A r \in Runs :
        script = "fishing"
        => LET l == locals[r]
           IN  /\ l.story_functions # {} => Available(l.fishing_data)
               /\ "analyze_mpa_proximity" \in l.story_functions
                     => Available(l.mpa_data)
               /\ l.chosen_story_function = "analyze_mpa_proximity"
                     => Available(l.mpa_data) /\ Available(l.fishing_data)
               /\ (Available(l.fishing_data) /\ ~Available(l.mpa_data))
                     => ~(/\ outcome[r] \in {"no_candidate", "raised"}
                          /\ l.chosen_story_function = "analyze_mpa_proximity")

\* C13: in the oil and gas proximity analyzer every slot id the nearest
\* query returns is resolved to the dataset entry whose bounding box was
\* inserted under that id: the id is a valid position of the lists it
\* indexes, the shape measured is that entry's shape and the feature whose
\* ECOREGION is reported is that entry, also when features without geometry
\* or with a degenerate box were skipped earlier in the dataset.
C13_SlotResolvesToEntry ==
    \A r \in Runs :
        script = "oilgas"
        => LET l == locals[r]
               with_geometry == SelectSeq(l.coral_data.items,
                                          LAMBDA f : f.geometry # <<>>)
           IN  \A x \in l.slot_lookups :
                  /\ x.coral_idx \in l.idx
                  /\ x.in_range
                  /\ x.shape = l.shapes[x.coral_idx]
                  /\ x.feature = <<with_geometry[x.coral_idx]>>

\* Origins of the 5-degree cells around the events of the datasets, in tenths.
CellOrigins == {<<CELL_TENTHS * a, CELL_TENTHS * b>> : a \in -2..3, b \in -2..3}

\* Event e lies in the cell of origin c: c <= coordinate < c + 5 degrees.
InCell(e, c) ==
    /\ c[1] <= e.lon /\ e.lon < c[1] + CELL_TENTHS
    /\ c[2] <= e.lat /\ e.lat < c[2] + CELL_TENTHS

\* C14: analyze_global_hotspot puts each event in the cell
\* (floor(lon/5)*5, floor(lat/5)*5), floor rounding down ((-1.6, 4.0) is in
\* (-5, 0), (12.0, 3.0) in (10, 0)), counts every event, and returns the
\* cell with the greatest count, the first encountered in dataset order
\* among equals, with event_count that cell's count and center_coords the
\* cell origin plus 2.5 on each axis.
C14_HotspotGrid ==
    /\ Cell(Event(-16, 40, <<>>)) = <<-50, 0>>
    /\ Cell(Event(120, 30, <<>>)) = <<100, 0>>
    /\ \A r \in Runs :
          (script = "fishing"
           /\ locals[r].chosen_story_function = "analyze_global_hotspot")
          => LET l == locals[r]
                 ev == l.fishing_data.items
                 members(c) == {i \in 1..Len(ev) : InCell(ev[i], c)}
                 first(c) == CHOOSE i \in members(c) : \A j \in members(c) : i <= j
                 c == <<l.story_data.center_coords[1] - 25,
                        l.story_data.center_coords[2] - 25>>
             IN  IF ev = <<>> THEN l.story_data = NoStory
                 ELSE /\ l.story_data.story_type = "global_hotspot"
                      /\ c \in CellOrigins
                      /\ \A i \in 1..Len(ev) : \E d \in CellOrigins : InCell(ev[i], d)
                      /\ members(c) # {}
                      /\ l.story_data.event_count = Cardinality(members(c))
                      /\ \A d \in CellOrigins \ {c} :
                            \/ Cardinality(members(d)) < Cardinality(members(c))
                            \/ /\ Cardinality(members(d)) = Cardinality(members(c))
                               /\ first(c) < first(d)

\* C14 witness: on the events (-1.6, 4.0), (12.0, 3.0), (-2.0, 1.0),
\* (13.0, 4.0), two cells of two events each, the hotspot is the cell (-5, 0)
\* of the first event: centre (-2.5, 2.5), count 2.
C14_Witness ==
    \E r \in Runs :
        /\ script = "fishing"
        /\ locals[r].chosen_story_function = "analyze_global_hotspot"
        /\ Len(locals[r].fishing_data.items) = 4
        /\ locals[r].story_data # NoStory
        /\ locals[r].story_data.center_coords = <<-25, 25>>
        /\ locals[r].story_data.event_count = 2

\* C15: analyze_eez_focus returns the eez value with the most occurrences
\* over the records that carry one (the others are not counted), the value
\* met first in dataset order among equals, event_count being its number of
\* occurrences and center_coords the coordinates of the first record in
\* dataset order that carries it.
C15_EezFocus ==
    \A r \in Runs :
        (/\ script = "fishing"
         /\ locals[r].chosen_story_function = "analyze_eez_focus"
         /\ locals[r].story_data # NoStory)
        => LET l == locals[r]
               ev == l.fishing_data.items
               carrying(v) == {i \in 1..Len(ev) : ev[i].eez # <<>> /\ ev[i].eez[1] = v}
               values == {ev[i].eez[1] : i \in {j \in 1..Len(ev) : ev[j].eez # <<>>}}
               first(v) == CHOOSE i \in carrying(v) : \A j \in carrying(v) : i <= j
               winner == l.story_data.eez_name
           IN  /\ l.story_data.story_type = "eez_focus"
               /\ winner \in values
               /\ l.story_data.event_count = Cardinality(carrying(winner))
               /\ \A w \in values \ {winner} :
                     \/ Cardinality(carrying(w)) < Cardinality(carrying(winner))
                     \/ /\ Cardinality(carrying(w)) = Cardinality(carrying(winner))
                        /\ first(winner) < first(w)
               /\ l.story_data.center_coords
                     = <<ev[first(winner)].lon, ev[first(winner)].lat>>

\* C15 witness: of four records, one without eez, one with Y and then two
\* with X, the focus is X, counted twice, at the coordinates of the third
\* record.
C15_Witness ==
    \E r \in Runs :
        /\ script = "fishing"
        /\ locals[r].chosen_story_function = "analyze_eez_focus"
        /\ Len(locals[r].fishing_data.items) = 4
        /\ locals[r].fishing_data.items[1].eez = <<>>
        /\ locals[r].story_data # NoStory
        /\ locals[r].story_data.eez_name = "X"
        /\ locals[r].story_data.event_count = 2
        /\ locals[r].story_data.center_coords = <<-20, 10>>

\* Runs r and q both loaded the log when it held the list L, with status
\* 200, and both have saved: neither load saw the other's entry.
BothLoadedBeforeEitherPersisted(r, q) ==
    /\ r # q
    /\ script \in {"fishing", "news"}
    /\ outcome[r] = "saved" /\ outcome[q] = "saved"
    /\ pc[r] = "idle" /\ pc[q] = "idle"
    /\ locals[r].existing_log_res.status_code = 200
    /\ locals[r].existing_log_res.kind = "list"
    /\ locals[q].existing_log_res = locals[r].existing_log_res

\* C16: when two concurrent runs of a pipeline both load the same log before
\* either persists, the run that persists last overwrites the result of the
\* other: the final log is one run's entry followed by the log both loaded,
\* so that of two different new entries it holds only one.
C16_LastWriterWins ==
    \A r, q \in Runs :
        BothLoadedBeforeEitherPersisted(r, q)
        => LET L == locals[r].existing_log_res.items
               e_r == locals[r].insight_data.obj
               e_q == locals[q].insight_data.obj
           IN  /\ logs[script].items \in {<<e_r>> \o L, <<e_q>> \o L}
               /\ (e_r # e_q /\ e_r \notin Range(L) /\ e_q \notin Range(L))
                     => ~({e_r, e_q} \subseteq Range(logs[script].items))

\* C16 witness, the lost append: both runs loaded the same log and saved
\* different new entries, and the log holds the entry of one of them only.
C16_Witness ==
    \E r, q \in Runs :
        /\ BothLoadedBeforeEitherPersisted(r, q)
        /\ locals[r].insight_data.obj # locals[q].insight_data.obj
        /\ locals[r].insight_data.obj \notin Range(locals[r].existing_log_res.items)
        /\ locals[q].insight_data.obj \notin Range(locals[r].existing_log_res.items)
        /\ locals[r].insight_data.obj \in persisted
        /\ locals[r].insight_data.obj \notin Range(logs[script].items)
        /\ locals[q].insight_data.obj \in Range(logs[script].items)
====
